---- MODULE Spec2Model ----
(***************************************************************************)
(* A model of kayak/matrix_ops.py: the matrix operation nodes of the Kayak *)
(* automatic-differentiation library (MatMult, MatSum, MatAdd, Transpose,  *)
(* Reshape, Concatenate), their constructors, shape(), compute_value(),    *)
(* local_grad() and depends().                                             *)
(*                                                                         *)
(* Node objects live in an arena `nodes`; the index of a node is its       *)
(* object identity and the order of the arena is the order of creation.    *)
(* Arrays are records [shape, data] with data in row-major (C) order, as   *)
(* numpy keeps them.  Python indices are 0-based; the sequences of this    *)
(* module are 1-based, so an axis k of Python is element k+1 of a shape.   *)
(* A call that raises returns Err(name of the exception), a call that      *)
(* returns v returns Ok(v).                                                *)
(***************************************************************************)
EXTENDS Integers, Sequences, FiniteSets, TLC

\* ---------------------------------------------------------------- bounds
MaxDim  == 3      \* leaf dimensions range over 1..MaxDim
MaxRank == 3      \* leaf ranks range over 1..MaxRank
MaxSize == 4      \* leaves hold at most MaxSize elements
NumLeaves == 2    \* leaves the graph is built on
MaxArgs == 3      \* operands of one n-ary constructor call

\* ------------------------------------------------------- results, helpers
Ok(v)  == [ok |-> TRUE, val |-> v]
\* raise type(msg % args)
Raise(type, msg, args) == [ok |-> FALSE, err |-> type, msg |-> msg, args |-> args]
Err(type) == Raise(type, "", <<>>)

None    == <<>>          \* Python's None for an optional parameter
Some(v) == <<v>>

RECURSIVE Prod(_)
Prod(s) == IF s = <<>> THEN 1 ELSE Head(s) * Prod(Tail(s))

RECURSIVE SumSeq(_)
SumSeq(s) == IF s = <<>> THEN 0 ELSE Head(s) + SumSeq(Tail(s))

Reverse(s) == [i \in 1..Len(s) |-> s[Len(s) + 1 - i]]

\* seq[i] of Python, negative indices counting from the end
PyInRange(s, i) == -Len(s) <= i /\ i < Len(s)
PyPos(s, i)     == IF i < 0 THEN i + Len(s) + 1 ELSE i + 1
PyGet(s, i)     == IF PyInRange(s, i) THEN Ok(s[PyPos(s, i)]) ELSE Err("IndexError")

\* the multi-index (0-based coordinates) of flat position k (0-based)
RECURSIVE Unravel(_, _)
Unravel(k, shape) ==
    IF shape = <<>> THEN <<>>
    ELSE LET rest == Prod(Tail(shape))
         IN  <<k \div rest>> \o Unravel(k % rest, Tail(shape))

RECURSIVE Ravel(_, _)
Ravel(idx, shape) ==
    IF shape = <<>> THEN 0
    ELSE Head(idx) * Prod(Tail(shape)) + Ravel(Tail(idx), Tail(shape))

At(a, idx) == a.data[Ravel(idx, a.shape) + 1]

MkArray(shape, F(_)) ==
    [shape |-> shape, data |-> [k \in 1..Prod(shape) |-> F(Unravel(k - 1, shape))]]

Iota(shape) == [shape |-> shape, data |-> [k \in 1..Prod(shape) |-> k]]

\* ------------------------------------------------------------------ numpy
NpOnes(shape) ==
    IF \E i \in 1..Len(shape) : shape[i] < 0 THEN Err("ValueError")
    ELSE Ok([shape |-> shape, data |-> [k \in 1..Prod(shape) |-> 1]])

NpAtleast1dShape(shape) == IF shape = <<>> THEN <<1>> ELSE shape

IsPerm(p, n) == Len(p) = n /\ \A v \in 0..(n - 1) : \E i \in 1..n : p[i] = v

\* np.transpose(a, axes): axis i of the result is axis axes[i] of a
NpTranspose(a, axes) ==
    LET r == Len(a.shape)
        p == IF axes = None THEN [i \in 1..r |-> r - i] ELSE axes[1]
    IN  IF ~IsPerm(p, r) THEN Err("ValueError")
        ELSE LET shp == [i \in 1..r |-> a.shape[p[i] + 1]]
                 Src(idx) == [j \in 1..r |-> idx[CHOOSE i \in 1..r : p[i] = j - 1]]
                 F(idx) == At(a, Src(idx))
             IN  Ok(MkArray(shp, F))

\* np.argsort(p): positions of p's elements in ascending order (stable)
NpArgsort(p) ==
    LET Before(i, j) == p[i] < p[j] \/ (p[i] = p[j] /\ i < j)
        Rank(j) == Cardinality({i \in 1..Len(p) : Before(i, j)})
    IN  [k \in 1..Len(p) |-> (CHOOSE j \in 1..Len(p) : Rank(j) = k - 1) - 1]

\* the shape np.reshape gives: one -1 entry is inferred from the size
ReshapeTarget(size, new_shape) ==
    LET unknown == {i \in 1..Len(new_shape) : new_shape[i] = -1}
        known   == Prod([i \in 1..Len(new_shape) |->
                           IF new_shape[i] = -1 THEN 1 ELSE new_shape[i]])
    IN  IF unknown = {}
        THEN IF known = size THEN Ok(new_shape) ELSE Err("ValueError")
        ELSE IF Cardinality(unknown) > 1 \/ known = 0 \/ size % known # 0
             THEN Err("ValueError")
             ELSE Ok([i \in 1..Len(new_shape) |->
                        IF new_shape[i] = -1 THEN size \div known ELSE new_shape[i]])

NpReshape(a, new_shape) ==
    LET t == ReshapeTarget(Len(a.data), new_shape)
    IN  IF t.ok THEN Ok([shape |-> t.val, data |-> a.data]) ELSE t

DropAt(s, k)      == [i \in 1..(Len(s) - 1) |-> IF i < k THEN s[i] ELSE s[i + 1]]
InsertAt(s, k, v) == [i \in 1..(Len(s) + 1) |->
                        IF i < k THEN s[i] ELSE IF i = k THEN v ELSE s[i - 1]]

\* np.sum(a, axis=k) for one integer axis: the axis is dropped
NpSumAxis(a, axis) ==
    IF ~PyInRange(a.shape, axis) THEN Err("AxisError")
    ELSE LET k   == PyPos(a.shape, axis)
             shp == DropAt(a.shape, k)
             F(idx) == SumSeq([t \in 1..a.shape[k] |-> At(a, InsertAt(idx, k, t - 1))])
         IN  Ok(MkArray(shp, F))

\* np.sum(a, axis=axes) for a tuple of distinct 0-based axes
RECURSIVE NpSumAxes(_, _)
NpSumAxes(a, axes) ==
    IF axes = <<>> THEN a
    ELSE NpSumAxes(NpSumAxis(a, axes[Len(axes)]).val, SubSeq(axes, 1, Len(axes) - 1))

\* np.sum(a): a 0-dimensional array
NpSumAll(a) == [shape |-> <<>>, data |-> <<SumSeq(a.data)>>]

\* np.expand_dims(a, axis): a new axis of length 1 at position axis of the result
NpExpandDims(a, axis) ==
    LET r == Len(a.shape) + 1
    IN  IF ~(-r <= axis /\ axis < r) THEN Err("AxisError")
        ELSE LET k == IF axis < 0 THEN axis + r + 1 ELSE axis + 1
             IN  Ok([shape |-> InsertAt(a.shape, k, 1), data |-> a.data])

\* numpy's broadcasting of two shapes
PadLeft(s, r) == [i \in 1..r |-> IF i <= r - Len(s) THEN 1 ELSE s[i - (r - Len(s))]]
Max(x, y) == IF x >= y THEN x ELSE y

NpBroadcastShape(s, t) ==
    LET r  == Max(Len(s), Len(t))
        ps == PadLeft(s, r)
        pt == PadLeft(t, r)
    IN  IF \A i \in 1..r : ps[i] = pt[i] \/ ps[i] = 1 \/ pt[i] = 1
        THEN Ok([i \in 1..r |-> IF ps[i] = 1 THEN pt[i] ELSE ps[i]])
        ELSE Err("ValueError")

\* the element of a that position idx of the broadcast result reads
BroadcastAt(a, idx) ==
    LET off == Len(idx) - Len(a.shape)
    IN  At(a, [i \in 1..Len(a.shape) |-> IF a.shape[i] = 1 THEN 0 ELSE idx[i + off]])

NpAdd(a, b) ==
    LET s == NpBroadcastShape(a.shape, b.shape)
        F(idx) == BroadcastAt(a, idx) + BroadcastAt(b, idx)
    IN  IF s.ok THEN Ok(MkArray(s.val, F)) ELSE s

NpMul(a, b) ==
    LET s == NpBroadcastShape(a.shape, b.shape)
        F(idx) == BroadcastAt(a, idx) * BroadcastAt(b, idx)
    IN  IF s.ok THEN Ok(MkArray(s.val, F)) ELSE s

\* np.dot(a, b) for arrays of rank >= 1: the last axis of a is contracted with
\* the second-to-last axis of b (the only axis of a 1-dimensional b)
NpDot(a, b) ==
    LET ra == Len(a.shape)
        rb == Len(b.shape)
        n  == a.shape[ra]
        kb == IF rb = 1 THEN 1 ELSE rb - 1
    IN  IF n # b.shape[kb] THEN Err("ValueError")
        ELSE LET shp == SubSeq(a.shape, 1, ra - 1) \o DropAt(b.shape, kb)
                 F(idx) ==
                    LET ia == SubSeq(idx, 1, ra - 1)
                        ib == SubSeq(idx, ra, Len(idx))
                    IN  SumSeq([t \in 1..n |->
                                  At(a, ia \o <<t - 1>>) * At(b, InsertAt(ib, kb, t - 1))])
             IN  Ok(MkArray(shp, F))

\* np.outer(a, b): both arguments are flattened
NpOuter(a, b) ==
    LET m == Len(a.data)
        n == Len(b.data)
    IN  [shape |-> <<m, n>>,
         data  |-> [k \in 1..(m * n) |-> a.data[((k - 1) \div n) + 1] * b.data[((k - 1) % n) + 1]]]

\* the part of a with lo <= coordinate on axis k (1-based) < hi
SliceAxis(a, k, lo, hi) ==
    LET shp == [a.shape EXCEPT ![k] = hi - lo]
        F(idx) == At(a, [idx EXCEPT ![k] = @ + lo])
    IN  MkArray(shp, F)

Min(x, y) == IF x <= y THEN x ELSE y

\* np.split(a, [at], axis): the two parts a[..., :at, ...] and a[..., at:, ...]
NpSplit(a, at, axis) ==
    IF ~PyInRange(a.shape, axis) THEN Err("IndexError")
    ELSE LET k   == PyPos(a.shape, axis)
             len == a.shape[k]
             cut == IF at < 0 THEN Max(at + len, 0) ELSE Min(at, len)
         IN  Ok(<<SliceAxis(a, k, 0, cut), SliceAxis(a, k, cut, a.shape[k])>>)

\* np.concatenate((a, b), axis)
NpConcatenate(a, b, axis) ==
    IF Len(a.shape) # Len(b.shape) THEN Err("ValueError")
    ELSE IF ~PyInRange(a.shape, axis) THEN Err("AxisError")
    ELSE LET k == PyPos(a.shape, axis)
         IN  IF \E i \in 1..Len(a.shape) : i # k /\ a.shape[i] # b.shape[i]
             THEN Err("ValueError")
             ELSE LET shp == [a.shape EXCEPT ![k] = @ + b.shape[k]]
                      F(idx) == IF idx[k] < a.shape[k] THEN At(a, idx)
                                ELSE At(b, [idx EXCEPT ![k] = @ - a.shape[k]])
                  IN  Ok(MkArray(shp, F))

VARIABLES
    nodes,   \* the arena of node objects, in order of creation
    res      \* the call made last: [call, given, out], its name, its arguments and
             \* what it returned or raised; None when idle
vars == <<nodes, res>>

\* ------------------------------------------------------ node objects
\* One record shape for every class; the fields a class does not have are None/0.
\*   axis:      None, Some(k) for the integer k, or a longer sequence for a tuple
\*   axes:      None or Some(sequence of 0-based axes)
Node(kind, parents, axis, axes, new_shape, lshape) ==
    [kind |-> kind, parents |-> parents,
     A |-> IF Len(parents) >= 1 THEN parents[1] ELSE 0,
     B |-> IF Len(parents) >= 2 THEN parents[2] ELSE 0,
     axis |-> axis, axes |-> axes, new_shape |-> new_shape, lshape |-> lshape]

Leaf(shape) == Node("Leaf", <<>>, None, None, <<>>, shape)

\* the value a leaf is bound to: distinct entries, different for each leaf
LeafValue(ns, n) ==
    [shape |-> ns[n].lshape,
     data  |-> [k \in 1..Prod(ns[n].lshape) |-> k + (n - 1)]]

\* util.broadcast(shapeA, shapeB): the broadcast shape, or None
broadcast(s, t) ==
    LET r  == Max(Len(s), Len(t))
        ps == PadLeft(s, r)
        pt == PadLeft(t, r)
    IN  IF \A i \in 1..r : ps[i] = pt[i] \/ ps[i] = 1 \/ pt[i] = 1
        THEN Some([i \in 1..r |-> IF ps[i] = 1 THEN pt[i] ELSE ps[i]])
        ELSE None

\* ------------------------------------------------------------ shape()
RECURSIVE Shape(_, _)

MatMult_shape(ns, n) ==
    LET sa == Shape(ns, ns[n].A)
        sb == Shape(ns, ns[n].B)
    IN  IF ~sb.ok THEN sb
        ELSE IF ~sa.ok THEN sa
        ELSE IF Len(sb.val) = 1
             THEN LET a0 == PyGet(sa.val, 0)
                  IN  IF a0.ok THEN Ok(<<a0.val>>) ELSE a0
             ELSE LET a0 == PyGet(sa.val, 0)
                      b1 == PyGet(sb.val, 1)
                  IN  IF ~a0.ok THEN a0 ELSE IF ~b1.ok THEN b1
                      ELSE Ok(<<a0.val, b1.val>>)

MatSum_shape(ns, n) ==
    LET sa == Shape(ns, ns[n].A)
    IN  IF ~sa.ok THEN sa
        ELSE IF ns[n].axis = None THEN Ok([i \in 1..Len(sa.val) |-> 1])
        ELSE IF ~PyInRange(sa.val, ns[n].axis[1]) THEN Err("IndexError")
        ELSE Ok([sa.val EXCEPT ![PyPos(sa.val, ns[n].axis[1])] = 1])

MatAdd_shape(ns, n) ==
    LET sa == Shape(ns, ns[n].A)
        sb == Shape(ns, ns[n].B)
    IN  IF ~sa.ok THEN sa ELSE IF ~sb.ok THEN sb
        ELSE LET b == broadcast(sa.val, sb.val)
             IN  IF b = None THEN Err("NoneShape") ELSE Ok(b[1])

Transpose_shape(ns, n) ==
    LET sa == Shape(ns, ns[n].A)
    IN  IF ~sa.ok THEN sa
        ELSE IF ns[n].axes = None THEN Ok(Reverse(sa.val))
        ELSE LET p == ns[n].axes[1]
             IN  IF \E i \in 1..Len(p) : ~PyInRange(sa.val, p[i]) THEN Err("IndexError")
                 ELSE Ok([i \in 1..Len(p) |-> sa.val[PyPos(sa.val, p[i])]])

Reshape_shape(ns, n) == Ok(ns[n].new_shape)

Concatenate_shape(ns, n) ==
    LET sa == Shape(ns, ns[n].A)
        sb == Shape(ns, ns[n].B)
        ax == ns[n].axis[1]
    IN  IF ~sa.ok THEN sa ELSE IF ~sb.ok THEN sb
        ELSE IF ~PyInRange(sa.val, ax) \/ ~PyInRange(sb.val, ax) THEN Err("IndexError")
        ELSE Ok([sa.val EXCEPT ![PyPos(sa.val, ax)] = @ + sb.val[PyPos(sb.val, ax)]])

Shape(ns, n) ==
    CASE ns[n].kind = "Leaf"        -> Ok(ns[n].lshape)
      [] ns[n].kind = "MatMult"     -> MatMult_shape(ns, n)
      [] ns[n].kind = "MatSum"      -> MatSum_shape(ns, n)
      [] ns[n].kind = "MatAdd"      -> MatAdd_shape(ns, n)
      [] ns[n].kind = "Transpose"   -> Transpose_shape(ns, n)
      [] ns[n].kind = "Reshape"     -> Reshape_shape(ns, n)
      [] ns[n].kind = "Concatenate" -> Concatenate_shape(ns, n)

\* ---------------------------------------------------- compute_value()
RECURSIVE Value(_, _)

MatMult_compute_value(ns, n) ==
    LET a == Value(ns, ns[n].A)
        b == Value(ns, ns[n].B)
    IN  IF ~a.ok THEN a ELSE IF ~b.ok THEN b ELSE NpDot(a.val, b.val)

MatSum_compute_value(ns, n) ==
    LET a == Value(ns, ns[n].A)
    IN  IF ~a.ok THEN a
        ELSE IF ns[n].axis = None
             THEN NpReshape(NpSumAll(a.val), [i \in 1..Len(a.val.shape) |-> 1])
             ELSE LET s == NpSumAxis(a.val, ns[n].axis[1])
                  IN  IF ~s.ok THEN s ELSE NpExpandDims(s.val, ns[n].axis[1])

MatAdd_compute_value(ns, n) ==
    LET a == Value(ns, ns[n].A)
        b == Value(ns, ns[n].B)
    IN  IF ~a.ok THEN a ELSE IF ~b.ok THEN b ELSE NpAdd(a.val, b.val)

Transpose_compute_value(ns, n) ==
    LET a == Value(ns, ns[n].A)
    IN  IF ~a.ok THEN a ELSE NpTranspose(a.val, ns[n].axes)

Reshape_compute_value(ns, n) ==
    LET a == Value(ns, ns[n].A)
    IN  IF ~a.ok THEN a ELSE NpReshape(a.val, ns[n].new_shape)

Concatenate_compute_value(ns, n) ==
    LET a == Value(ns, ns[n].A)
        b == Value(ns, ns[n].B)
    IN  IF ~a.ok THEN a ELSE IF ~b.ok THEN b
        ELSE NpConcatenate(a.val, b.val, ns[n].axis[1])

\* Differentiable.value(): the forward value of a node
Value(ns, n) ==
    CASE ns[n].kind = "Leaf"        -> Ok(LeafValue(ns, n))
      [] ns[n].kind = "MatMult"     -> MatMult_compute_value(ns, n)
      [] ns[n].kind = "MatSum"      -> MatSum_compute_value(ns, n)
      [] ns[n].kind = "MatAdd"      -> MatAdd_compute_value(ns, n)
      [] ns[n].kind = "Transpose"   -> Transpose_compute_value(ns, n)
      [] ns[n].kind = "Reshape"     -> Reshape_compute_value(ns, n)
      [] ns[n].kind = "Concatenate" -> Concatenate_compute_value(ns, n)

\* ------------------------------------------------------- constructors
\* A constructor returns Ok(identity of the new node) together with the arena
\* the call leaves, or what it raised.  Differentiable.__init__(parents)
\* records the operand list of the new node.
Built(ns, node) == [ok |-> TRUE, val |-> Len(ns) + 1, nodes |-> Append(ns, node)]

RECURSIVE MatMult_init(_, _)
MatMult_init(ns, Xs) ==
    LET inner == IF Len(Xs) > 2 THEN MatMult_init(ns, Tail(Xs))
                 ELSE [ok |-> TRUE, val |-> Xs[2], nodes |-> ns]
    IN  IF ~inner.ok THEN inner
        ELSE LET A  == Xs[1]
                 B  == inner.val
                 sa == Shape(inner.nodes, A)
                 sb == Shape(inner.nodes, B)
                 a1 == IF sa.ok THEN PyGet(sa.val, 1) ELSE sa
                 b0 == IF sb.ok THEN PyGet(sb.val, 0) ELSE sb
             IN  IF ~a1.ok THEN a1
                 ELSE IF ~b0.ok THEN b0
                 ELSE IF a1.val # b0.val
                      THEN Raise("Exception", "Cannot multiply %s by %s matrices.",
                                 <<sa.val, sb.val>>)
                      ELSE Built(inner.nodes,
                                 Node("MatMult", <<A, B>>, None, None, <<>>, <<>>))

MatSum_init(ns, A, axis) ==
    IF axis # None /\ Len(axis) # 1
    THEN Raise("Exception", "Can only sum over one axis at a time.", <<>>)
    ELSE Built(ns, Node("MatSum", <<A>>, axis, None, <<>>, <<>>))

RECURSIVE MatAdd_init(_, _)
MatAdd_init(ns, Xs) ==
    LET inner == IF Len(Xs) > 2 THEN MatAdd_init(ns, Tail(Xs))
                 ELSE [ok |-> TRUE, val |-> Xs[2], nodes |-> ns]
    IN  IF ~inner.ok THEN inner
        ELSE LET A  == Xs[1]
                 B  == inner.val
                 sa == Shape(inner.nodes, A)
                 sb == Shape(inner.nodes, B)
             IN  IF ~sa.ok THEN sa
                 ELSE IF ~sb.ok THEN sb
                 ELSE IF broadcast(sa.val, sb.val) = None
                      THEN Raise("Exception", "Matrices are not broadcastable: %s vs %s",
                                 <<sa.val, sb.val>>)
                      ELSE Built(inner.nodes,
                                 Node("MatAdd", <<A, B>>, None, None, <<>>, <<>>))

Transpose_init(ns, A, axes) ==
    Built(ns, Node("Transpose", <<A>>, None, axes, <<>>, <<>>))

Reshape_init(ns, A, new_shape) ==
    Built(ns, Node("Reshape", <<A>>, None, None, new_shape, <<>>))

\* Concatenate.__init__ with the nested call left on axis 0
RECURSIVE Concatenate_init_axis_lost(_, _, _)
Concatenate_init_axis_lost(ns, axis, Xs) ==
    LET inner == IF Len(Xs) > 2 THEN Concatenate_init_axis_lost(ns, 0, Tail(Xs))
                 ELSE [ok |-> TRUE, val |-> Xs[2], nodes |-> ns]
    IN  Built(inner.nodes,
              Node("Concatenate", <<Xs[1], inner.val>>, Some(axis), None, <<>>, <<>>))

RECURSIVE Concatenate_init(_, _, _)
Concatenate_init(ns, axis, Xs) ==
    LET inner == IF Len(Xs) > 2 THEN Concatenate_init(ns, axis, Tail(Xs))
                 ELSE [ok |-> TRUE, val |-> Xs[2], nodes |-> ns]
    IN  IF ~inner.ok THEN inner
        ELSE Built(inner.nodes,
                   Node("Concatenate", <<Xs[1], inner.val>>, Some(axis), None, <<>>, <<>>))

\* --------------------------------------------------------- local_grad()
MatMult_local_grad(ns, n, parent, d) ==
    LET A == ns[n].A
        B == ns[n].B
    IN  IF parent = A
        THEN LET sb == Shape(ns, B)
                 bv == Value(ns, B)
             IN  IF ~sb.ok THEN sb ELSE IF ~bv.ok THEN bv
                 ELSE IF Len(sb.val) = 1 THEN Ok(NpOuter(d, bv.val))
                 ELSE NpDot(d, NpTranspose(bv.val, None).val)
        ELSE IF parent = B
        THEN LET sa == Shape(ns, A)
                 av == Value(ns, A)
             IN  IF ~sa.ok THEN sa ELSE IF ~av.ok THEN av
                 ELSE IF Len(sa.val) = 1 THEN Ok(NpOuter(av.val, d))
                 ELSE NpDot(NpTranspose(av.val, None).val, d)
        ELSE Raise("Exception", "Not a parent of me", <<>>)

MatSum_local_grad(ns, n, parent, d) ==
    IF parent # ns[n].A THEN Err("AssertionError")
    ELSE LET sa == Shape(ns, ns[n].A)
             ones == IF sa.ok THEN NpOnes(sa.val) ELSE sa
         IN  IF ~ones.ok THEN ones ELSE NpMul(d, ones.val)

\* the loop of axes_for_sum: dim counts the axes of d from the last one
RECURSIVE axes_loop(_, _, _, _)
axes_loop(mat_shape, d_shape, dim, to_sum) ==
    IF dim = Len(d_shape) THEN to_sum
    ELSE IF Len(mat_shape) = 0
         THEN axes_loop(mat_shape, d_shape, dim + 1,
                        Append(to_sum, Len(d_shape) - dim - 1))
         ELSE LET popped == mat_shape[Len(mat_shape)]
                  rest   == SubSeq(mat_shape, 1, Len(mat_shape) - 1)
              IN  IF popped = 1
                  THEN axes_loop(rest, d_shape, dim + 1,
                                 Append(to_sum, Len(d_shape) - dim - 1))
                  ELSE axes_loop(rest, d_shape, dim + 1, to_sum)

\* axes_for_sum with the axes left as counted from the last axis of d
axes_for_sum_from_end(mat_shape, d_out_d_self_shape) ==
    LET picked == axes_loop(mat_shape, d_out_d_self_shape, 0, <<>>)
        S == {Len(d_out_d_self_shape) - 1 - picked[i] : i \in 1..Len(picked)}
    IN  [i \in 1..Cardinality(S) |->
           CHOOSE x \in S : Cardinality({y \in S : y < x}) = i - 1]

axes_for_sum(mat_shape, d_out_d_self_shape) ==
    Reverse(axes_loop(mat_shape, d_out_d_self_shape, 0, <<>>))

MatAdd_local_grad(ns, n, parent, d) ==
    IF ns[n].A = ns[n].B THEN Err("AssertionError")
    ELSE LET sp == Shape(ns, parent)
         IN  IF ~sp.ok THEN sp
             ELSE IF NpAtleast1dShape(d.shape) = sp.val THEN Ok(d)
             ELSE LET broadcast_axes == axes_for_sum(sp.val, d.shape)
                  IN  NpReshape(NpSumAxes(d, broadcast_axes), sp.val)

\* Transpose.local_grad applying the permutation again, not its inverse
Transpose_local_grad_same_axes(ns, n, parent, d) ==
    NpTranspose(d, ns[n].axes)

Transpose_local_grad(ns, n, parent, d) ==
    IF ns[n].axes = None THEN NpTranspose(d, None)
    ELSE NpTranspose(d, Some(NpArgsort(ns[n].axes[1])))

Reshape_local_grad(ns, n, parent, d) ==
    LET sa == Shape(ns, ns[n].A)
    IN  IF ~sa.ok THEN sa ELSE NpReshape(d, sa.val)

\* Concatenate.local_grad splitting at B's extent on the axis
Concatenate_local_grad_split_at_B(ns, n, parent, d) ==
    IF ns[n].A = ns[n].B THEN Err("AssertionError")
    ELSE LET sb == Shape(ns, ns[n].B)
             at == IF sb.ok THEN PyGet(sb.val, ns[n].axis[1]) ELSE sb
             parts == IF at.ok THEN NpSplit(d, at.val, ns[n].axis[1]) ELSE at
         IN  IF ~parts.ok THEN parts
             ELSE IF parent = ns[n].A THEN Ok(parts.val[1])
             ELSE IF parent = ns[n].B THEN Ok(parts.val[2])
             ELSE Raise("Exception", "Parent must be A or B", <<>>)

Concatenate_local_grad(ns, n, parent, d) ==
    IF ns[n].A = ns[n].B THEN Err("AssertionError")
    ELSE LET sa == Shape(ns, ns[n].A)
             at == IF sa.ok THEN PyGet(sa.val, ns[n].axis[1]) ELSE sa
             parts == IF at.ok THEN NpSplit(d, at.val, ns[n].axis[1]) ELSE at
         IN  IF ~parts.ok THEN parts
             ELSE IF parent = ns[n].A THEN Ok(parts.val[1])
             ELSE IF parent = ns[n].B THEN Ok(parts.val[2])
             ELSE Raise("Exception", "Parent must be A or B", <<>>)

local_grad(ns, n, parent, d) ==
    CASE ns[n].kind = "MatMult"     -> MatMult_local_grad(ns, n, parent, d)
      [] ns[n].kind = "MatSum"      -> MatSum_local_grad(ns, n, parent, d)
      [] ns[n].kind = "MatAdd"      -> MatAdd_local_grad(ns, n, parent, d)
      [] ns[n].kind = "Transpose"   -> Transpose_local_grad(ns, n, parent, d)
      [] ns[n].kind = "Reshape"     -> Reshape_local_grad(ns, n, parent, d)
      [] ns[n].kind = "Concatenate" -> Concatenate_local_grad(ns, n, parent, d)

\* ------------------------------------------------------------- depends()
RECURSIVE depends(_, _, _)

\* Differentiable.depends: other is this node or reachable over operands
Differentiable_depends(ns, n, other) ==
    n = other \/ \E i \in 1..Len(ns[n].parents) : depends(ns, ns[n].parents[i], other)

MatSum_depends(ns, n, other) ==
    ns[n].A = other \/ depends(ns, ns[n].A, other)

depends(ns, n, other) ==
    IF ns[n].kind = "MatSum" THEN MatSum_depends(ns, n, other)
    ELSE Differentiable_depends(ns, n, other)

\* ------------------------------------------- reverse-mode dispatch step
\* One step of the backward traversal at node n: local_grad is asked once for
\* every entry of the ordered operand list and the contributions to a node
\* are summed.  The result lists every operand with its accumulated gradient.
RECURSIVE accumulate(_, _, _, _, _)
accumulate(ns, n, d, i, acc) ==
    IF i > Len(ns[n].parents) THEN Ok(acc)
    ELSE LET p == ns[n].parents[i]
             g == local_grad(ns, n, p, d)
             seen == {k \in 1..Len(acc) : acc[k].node = p}
         IN  IF ~g.ok THEN g
             ELSE IF seen # {}
                  THEN LET k == CHOOSE k \in seen : TRUE
                           t == NpAdd(acc[k].grad, g.val)
                       IN  IF ~t.ok THEN t
                           ELSE accumulate(ns, n, d, i + 1,
                                           [acc EXCEPT ![k].grad = t.val])
                  ELSE accumulate(ns, n, d, i + 1,
                                  Append(acc, [node |-> p, grad |-> g.val]))

backward_step(ns, n, d) == accumulate(ns, n, d, 1, <<>>)

\* ----------------------------------------------------------- the inputs
SeqsUpTo(S, lo, hi) == UNION {[1..k -> S] : k \in lo..hi}

LeafShapes == {s \in SeqsUpTo(1..MaxDim, 1, MaxRank) : Prod(s) <= MaxSize}

\* axis of MatSum: None, an integer (also out of range), a tuple of two axes
AxisArgs == {None} \cup {Some(k) : k \in -1..(MaxRank - 1)} \cup {<<0, 1>>}

\* axes of Transpose: None or a permutation of 0..r-1
AxesArgs == {None} \cup
            {Some(p) : p \in UNION {{q \in [1..r -> 0..(r - 1)] : IsPerm(q, r)} : r \in 1..MaxRank}}

\* new_shape of Reshape: a shape, also with one dimension left to numpy (-1)
NewShapeArgs == LeafShapes \cup {<<-1>>, <<-1, 2>>}

ConcatAxisArgs == -1..(MaxRank - 1)

ArgLists == SeqsUpTo(1..Len(nodes), 2, MaxArgs)

\* A graph of the model is the leaves and the nodes one constructor call builds
\* on them: one node, or the chain of an n-ary call.
NumOps == Cardinality({n \in 1..Len(nodes) : nodes[n].kind # "Leaf"})

IsShape(s) == \A i \in 1..Len(s) : s[i] >= 1

\* the incoming gradients a caller passes to local_grad of node n: arrays
\* shaped like the node's output (its declared shape, its computed value)
DArgs(ns, n) ==
    LET sh == Shape(ns, n)
        v  == Value(ns, n)
    IN  (IF sh.ok /\ IsShape(sh.val) THEN {Iota(sh.val)} ELSE {})
        \cup (IF v.ok THEN {v.val, Iota(v.val.shape)} ELSE {})

\* ---------------------------------------------------------- the machine
Init ==
    /\ nodes \in {[i \in 1..NumLeaves |-> Leaf(ss[i])] : ss \in [1..NumLeaves -> LeafShapes]}
    /\ res = None

Called(name, args, r) ==
    [call |-> name, given |-> args, out |-> IF r.ok THEN Ok(r.val) ELSE r]

Construct(name, args, r) ==
    /\ res' = Called(name, args, r)
    /\ nodes' = IF r.ok THEN r.nodes ELSE nodes

NewMatMult ==
    \E Xs \in ArgLists :
        /\ res = None
        /\ NumOps = 0
        /\ Construct("MatMult", Xs, MatMult_init(nodes, Xs))

NewMatSum ==
    \E A \in 1..Len(nodes), axis \in AxisArgs :
        /\ res = None
        /\ NumOps = 0
        /\ Construct("MatSum", <<A, axis>>, MatSum_init(nodes, A, axis))

NewMatAdd ==
    \E Xs \in ArgLists :
        /\ res = None
        /\ NumOps = 0
        /\ Construct("MatAdd", Xs, MatAdd_init(nodes, Xs))

NewTranspose ==
    \E A \in 1..Len(nodes), axes \in AxesArgs :
        /\ res = None
        /\ NumOps = 0
        /\ Construct("Transpose", <<A, axes>>, Transpose_init(nodes, A, axes))

NewReshape ==
    \E A \in 1..Len(nodes), new_shape \in NewShapeArgs :
        /\ res = None
        /\ NumOps = 0
        /\ Construct("Reshape", <<A, new_shape>>, Reshape_init(nodes, A, new_shape))

NewConcatenate ==
    \E axis \in ConcatAxisArgs, Xs \in ArgLists :
        /\ res = None
        /\ NumOps = 0
        /\ Construct("Concatenate", <<axis, Xs>>, Concatenate_init(nodes, axis, Xs))

CallShape ==
    \E n \in 1..Len(nodes) :
        /\ res = None
        /\ res' = Called("shape", <<n>>, Shape(nodes, n))
        /\ UNCHANGED nodes

CallValue ==
    \E n \in 1..Len(nodes) :
        /\ res = None
        /\ res' = Called("value", <<n>>, Value(nodes, n))
        /\ UNCHANGED nodes

CallLocalGrad ==
    \E n \in 1..Len(nodes), parent \in 1..Len(nodes) :
        /\ res = None
        /\ nodes[n].kind # "Leaf"
        /\ \E d \in DArgs(nodes, n) :
               res' = Called("local_grad", <<n, parent, d>>, local_grad(nodes, n, parent, d))
        /\ UNCHANGED nodes

CallDepends ==
    \E n \in 1..Len(nodes), other \in 1..Len(nodes) :
        /\ res = None
        /\ res' = Called("depends", <<n, other>>, Ok(depends(nodes, n, other)))
        /\ UNCHANGED nodes

Backward ==
    \E n \in 1..Len(nodes) :
        /\ res = None
        /\ nodes[n].kind # "Leaf"
        /\ \E d \in DArgs(nodes, n) :
               res' = Called("backward", <<n, d>>, backward_step(nodes, n, d))
        /\ UNCHANGED nodes

\* the caller takes what the call returned or raised and goes on
Proceed ==
    /\ res # None
    /\ res' = None
    /\ UNCHANGED nodes

Next ==
    \/ NewMatMult
    \/ NewMatSum
    \/ NewMatAdd
    \/ NewTranspose
    \/ NewReshape
    \/ NewConcatenate
    \/ CallShape
    \/ CallValue
    \/ CallLocalGrad
    \/ CallDepends
    \/ Backward
    \/ Proceed

Spec == Init /\ [][Next]_vars

\* ------------------------------------------------------------ the claims
IsCall(name) == res # None /\ res.call = name

Operands(ns, n) == {ns[n].parents[i] : i \in 1..Len(ns[n].parents)}

\* the node, operand and incoming gradient of the local_grad call made last
LgNode   == res.given[1]
LgParent == res.given[2]
LgD      == res.given[3]

\* local_grad was called on a `kind` node for one of its operands, with an
\* incoming gradient shaped like the node's shape()
GradCallOn(kinds) ==
    /\ IsCall("local_grad")
    /\ nodes[LgNode].kind \in kinds
    /\ LgParent \in Operands(nodes, LgNode)
    /\ Shape(nodes, LgNode).ok
    /\ LgD.shape = Shape(nodes, LgNode).val

OpKinds == {"MatMult", "MatSum", "MatAdd", "Transpose", "Reshape", "Concatenate"}

\* C1: local_grad(P, d) of any operation node ends in an error when P is not
\* one of the node's direct operands.
C1_NonOperandRaises ==
    (IsCall("local_grad") /\ LgParent \notin Operands(nodes, LgNode))
        => ~res.out.ok

\* C2: for a node of any variant, a direct operand P and a gradient d shaped
\* like the node's shape(), local_grad(P, d) returns an array of shape
\* P.shape().  Stated for the nodes the claim is hardest to doubt on: the
\* forward value of the node computes, and the operands of a two-operand node
\* are distinct objects (local_grad of MatAdd and Concatenate refuses the same
\* object twice).
C2_GradientShape ==
    (/\ GradCallOn(OpKinds)
     /\ Value(nodes, LgNode).ok
     /\ nodes[LgNode].A # nodes[LgNode].B)
        => /\ res.out.ok
           /\ Shape(nodes, LgParent).ok
           /\ res.out.val.shape = Shape(nodes, LgParent).val

\* C3: the shape() of a node is the shape of the array its compute_value returns.
C3_ShapeMatchesValue ==
    (IsCall("value") /\ res.out.ok)
        => /\ Shape(nodes, res.given[1]).ok
           /\ Shape(nodes, res.given[1]).val = res.out.val.shape

\* C4: MatMult(A, B) on operands of rank 1 or 2 raises the shape-mismatch error
\* naming both shapes exactly when A's last dimension differs from B's first
\* dimension, and succeeds otherwise.
C4_InnerDimensionCheck ==
    (/\ IsCall("MatMult")
     /\ Len(res.given) = 2
     /\ Len(nodes[res.given[1]].lshape) \in {1, 2}
     /\ Len(nodes[res.given[2]].lshape) \in {1, 2})
        => LET sa == nodes[res.given[1]].lshape
               sb == nodes[res.given[2]].lshape
           IN  IF sa[Len(sa)] # sb[1]
               THEN res.out = Raise("Exception", "Cannot multiply %s by %s matrices.",
                                    <<sa, sb>>)
               ELSE res.out.ok

\* The gradient of broadcasting: element i of the operand was copied to every
\* output position j whose coordinates agree with i on the operand's axes of
\* length > 1 (right-aligned); its gradient is the sum of d over those j.
BroadcastGradient(pshape, d) ==
    LET off == Len(d.shape) - Len(pshape)
        Origin(j) == [t \in 1..Len(pshape) |-> IF pshape[t] = 1 THEN 0 ELSE j[t + off]]
        G(i) == SumSeq([k \in 1..Len(d.data) |->
                          IF Origin(Unravel(k - 1, d.shape)) = i THEN d.data[k] ELSE 0])
    IN  MkArray(pshape, G)

C5_Holds ==
    LET ps == Shape(nodes, LgParent).val
    IN  /\ res.out.ok
        /\ res.out.val = BroadcastGradient(ps, LgD)
        /\ (ps = LgD.shape => res.out.val = LgD)

\* C5 as stated: for every MatAdd node with broadcast-compatible operands,
\* local_grad(P, d) is the sum of d over the positions P's elements were
\* broadcast to, and d itself when P's shape is d's shape.
C5_Original == GradCallOn({"MatAdd"}) => C5_Holds

\* C5, amended: the same, for MatAdd nodes whose two operands are distinct
\* node objects.
C5_BroadcastGradient ==
    (GradCallOn({"MatAdd"}) /\ nodes[LgNode].A # nodes[LgNode].B) => C5_Holds

\* a MatAdd gradient that had to sum: the operand has lower rank than d and
\* fewer elements
C5_Witness ==
    /\ GradCallOn({"MatAdd"})
    /\ nodes[LgNode].A # nodes[LgNode].B
    /\ res.out.ok
    /\ Len(res.out.val.shape) < Len(LgD.shape)
    /\ Len(res.out.val.data) >= 2
    /\ Len(res.out.val.data) < Len(LgD.data)

\* root is op(Xs[1], op(Xs[2], ... op(Xs[n-1], Xs[n]))): every node of the
\* chain has the operand list [A, B], the nested node B was built before it in
\* this call, and every node carries the same axis
RECURSIVE IsRightChain(_, _, _, _, _, _)
IsRightChain(ns, first, kind, axis, root, Xs) ==
    /\ root \in first..Len(ns)
    /\ ns[root].kind = kind
    /\ ns[root].axis = axis
    /\ Len(ns[root].parents) = 2
    /\ ns[root].parents = <<ns[root].A, ns[root].B>>
    /\ ns[root].A = Xs[1]
    /\ IF Len(Xs) = 2 THEN ns[root].B = Xs[2] /\ root = first
       ELSE /\ ns[root].B = root - 1
            /\ IsRightChain(ns, first, kind, axis, root - 1, Tail(Xs))

\* C6: an n-ary MatMult, MatAdd or Concatenate call that succeeds leaves a
\* right-associated chain of n-1 binary nodes, built innermost first, with the
\* same axis on every Concatenate node.
C6_RightAssociatedChain ==
    \A kind \in {"MatMult", "MatAdd", "Concatenate"} :
        (IsCall(kind) /\ res.out.ok)
            => LET Xs   == IF kind = "Concatenate" THEN res.given[2] ELSE res.given
                   axis == IF kind = "Concatenate" THEN Some(res.given[1]) ELSE None
               IN  /\ Len(nodes) = NumLeaves + Len(Xs) - 1
                   /\ res.out.val = Len(nodes)
                   /\ IsRightChain(nodes, NumLeaves + 1, kind, axis, res.out.val, Xs)

\* a Concatenate call on three operands, the first and the last different
C6_Witness ==
    /\ IsCall("Concatenate")
    /\ res.out.ok
    /\ Len(res.given[2]) >= 3
    /\ res.given[2][1] # res.given[2][3]
    /\ res.given[1] # 0

\* C7: local_grad of Concatenate(axis, A, B), A and B distinct, gives A the
\* part of d with axis coordinate below A.shape[axis] and B the rest, and the
\* two parts concatenated along axis are d.
C7_SplitRouting ==
    (GradCallOn({"Concatenate"}) /\ nodes[LgNode].A # nodes[LgNode].B)
        => LET n  == nodes[LgNode]
               k  == PyPos(LgD.shape, n.axis[1])
               a  == Shape(nodes, n.A).val[k]
               gA == local_grad(nodes, LgNode, n.A, LgD)
               gB == local_grad(nodes, LgNode, n.B, LgD)
               g  == res.out.val
           IN  /\ res.out.ok
               /\ IF LgParent = n.A
                  THEN /\ g.shape = [LgD.shape EXCEPT ![k] = a]
                       /\ \A q \in 1..Len(g.data) :
                              LET idx == Unravel(q - 1, g.shape)
                              IN  g.data[q] = At(LgD, idx)
                  ELSE /\ g.shape = [LgD.shape EXCEPT ![k] = @ - a]
                       /\ \A q \in 1..Len(g.data) :
                              LET idx == Unravel(q - 1, g.shape)
                              IN  g.data[q] = At(LgD, [idx EXCEPT ![k] = @ + a])
               /\ gA.ok /\ gB.ok
               /\ NpConcatenate(gA.val, gB.val, n.axis[1]) = Ok(LgD)

\* the right part of a gradient split inside a row: B is routed the columns
\* after A's
C7_Witness ==
    /\ GradCallOn({"Concatenate"})
    /\ nodes[LgNode].A # nodes[LgNode].B
    /\ LgParent = nodes[LgNode].B
    /\ Len(LgD.shape) = 2
    /\ nodes[LgNode].axis = Some(1)
    /\ LgD.shape[1] >= 2
    /\ res.out.ok
    /\ Len(res.out.val.data) >= 2

\* C8: forward then backward is the identity for Transpose and Reshape:
\* local_grad applied to the node's forward value of g returns g, the value
\* of the operand.
C8_ForwardBackwardIdentity ==
    (/\ IsCall("local_grad")
     /\ nodes[LgNode].kind \in {"Transpose", "Reshape"}
     /\ LgParent = nodes[LgNode].A
     /\ Value(nodes, LgNode).ok
     /\ LgD = Value(nodes, LgNode).val)
        => res.out = Value(nodes, LgParent)

\* a transposition by a permutation that is not its own inverse, of an array
\* with several elements
C8_Witness ==
    /\ IsCall("local_grad")
    /\ nodes[LgNode].kind = "Transpose"
    /\ nodes[LgNode].axes = Some(<<1, 2, 0>>)
    /\ LgParent = nodes[LgNode].A
    /\ Value(nodes, LgNode).ok
    /\ LgD = Value(nodes, LgNode).val
    /\ Len(LgD.data) >= 4
    /\ res.out.ok

\* the nodes reachable from n by following operand references
RECURSIVE Reachable(_, _)
Reachable(ns, n) ==
    Operands(ns, n) \cup UNION {Reachable(ns, p) : p \in Operands(ns, n)}

\* C9: S.depends(X) of a MatSum node S is true exactly when X is S or X is
\* reachable from S over operand references.
C9_DependsReflexiveReachability ==
    (IsCall("depends") /\ nodes[res.given[1]].kind = "MatSum")
        => res.out.val = (res.given[2] = res.given[1]
                          \/ res.given[2] \in Reachable(nodes, res.given[1]))

\* C10: at a MatMult node whose two operands are the same square matrix X,
\* the contributions of one local_grad call per entry of the operand list sum
\* to d.X^T + X^T.d.
C10_SameOperandContributions ==
    (/\ IsCall("backward")
     /\ nodes[res.given[1]].kind = "MatMult"
     /\ nodes[res.given[1]].A = nodes[res.given[1]].B
     /\ Len(res.given[2].shape) = 2)
        => LET X  == nodes[res.given[1]].A
               d  == res.given[2]
               xT == NpTranspose(Value(nodes, X).val, None).val
           IN  /\ res.out.ok
               /\ res.out.val = <<[node |-> X,
                                    grad |-> NpAdd(NpDot(d, xT).val, NpDot(xT, d).val).val]>>
====
